---------------------------- MODULE Spec2Model ----------------------------
(***************************************************************************)
(* Model of kde_ebm/mixture_model/utils.py: the probability-matrix         *)
(* assembler get_prob_mat and the three per-biomarker fitting entry points *)
(* fit_all_gmm_models, fit_all_kde_models and fit_all_kde_models_plus.     *)
(*                                                                         *)
(* One call is modelled per behaviour: Init chooses the entry point and    *)
(* its arguments, the Enter action runs the code before the loop, one Iter *)
(* action runs one pass of the per-biomarker loop and the Return action    *)
(* runs the code after it.  An exception leaves the call in pc = "raised". *)
(* Sequences are 1-based: biomarker i of the model is column i-1 of the    *)
(* Python code.                                                            *)
(***************************************************************************)
EXTENDS Integers, Sequences, FiniteSets

VARIABLES
    fn,                   \* the entry point that was called
    pc,                   \* "enter", "loop", "returned" or "raised"
    exc,                  \* the exception that ended the call, or "none"
    X,                    \* argument X: the measurement table, a sequence of rows
    y,                    \* argument y: the label vector
    Xloc,                 \* the local X after X = X[msk]
    yloc,                 \* the local y after y = y[msk]
    patholog_dirn_array,  \* argument patholog_dirn_array
    alphasArg,            \* argument alphas (alpha for fit_all_kde_models)
    betasArg,             \* argument betas (beta for fit_all_kde_models)
    alphas,               \* the local alphas after lines 90-94
    betas,                \* the local betas after lines 97-101
    i,                    \* the loop variable, 1-based
    mixture_models,       \* get_prob_mat: the argument; fit_all_gmm_models: the list built
    kde_mixtures,         \* the list built by the two KDE entry points
    prob_mat,             \* the tensor built by get_prob_mat
    probCalls,            \* the calls of probability() made so far
    fitCalls              \* the calls of fit() made so far

vars == <<fn, pc, exc, X, y, Xloc, yloc, patholog_dirn_array, alphasArg, betasArg,
          alphas, betas, i, mixture_models, kde_mixtures, prob_mat, probCalls, fitCalls>>

---------------------------------------------------------------------------
(* Bounds of the model.                                                    *)

NPat == 2         \* patients (rows of X)
NBio == 2         \* biomarkers (columns of X)
MaxLabel == 2     \* the largest diagnosis label
FloatBits == 2    \* significand bits of the floating-point format

---------------------------------------------------------------------------
(* Floating point.  numpy's float64 is modelled by a binary format with    *)
(* FloatBits significand bits, gradual underflow and round-to-nearest,     *)
(* ties-to-even.  A value v is held as the integer v * One.                *)

One == 2 ^ (FloatBits + 1)
Half == One \div 2

\* the representable values m * 2^k, 0 <= m < 2^FloatBits, up to 2.0
Representable ==
    { r \in 0..(2 * One) :
        \E k \in 0..(FloatBits + 2), m \in 0..(2 ^ FloatBits - 1) : r = m * 2 ^ k }

Max(S) == CHOOSE m \in S : \A s \in S : s <= m
Min(S) == CHOOSE m \in S : \A s \in S : m <= s

\* round-to-nearest, ties to the neighbour with the even significand
Round(n) ==
    LET lo == Max({ r \in Representable : r <= n })
        hi == Min({ r \in Representable : r >= n })
    IN  IF lo = hi THEN lo
        ELSE IF n - lo < hi - n THEN lo
        ELSE IF hi - n < n - lo THEN hi
        ELSE IF (lo \div (hi - lo)) % 2 = 0 THEN lo ELSE hi

FSub(a, b) == Round(a - b)
FAdd(a, b) == Round(a + b)

---------------------------------------------------------------------------
(* Arrays.                                                                 *)

NaN == 0   \* the missing-value sentinel of a cell; present cells are positive

IsNan(v) == v = NaN

\* X[:, c]
Column(T, c) == [p \in 1..Len(T) |-> T[p][c]]

\* a faulty variant: the negation is dropped, mask = np.isnan(col)
NotNanMaskNegationDropped(col) == [p \in 1..Len(col) |-> IsNan(col[p])]

\* ~np.isnan(col)
NotNanMask(col) == [p \in 1..Len(col) |-> ~IsNan(col[p])]

\* ~mask
Negate(mask) == [p \in 1..Len(mask) |-> ~mask[p]]

\* the indices at which mask holds, ascending
RECURSIVE TrueIdxUpTo(_, _)
TrueIdxUpTo(mask, n) ==
    IF n = 0 THEN <<>>
    ELSE IF mask[n] THEN Append(TrueIdxUpTo(mask, n - 1), n)
    ELSE TrueIdxUpTo(mask, n - 1)

TrueIdx(mask) == TrueIdxUpTo(mask, Len(mask))

\* arr[idx] for an index array idx
Take(arr, idx) == [j \in 1..Len(idx) |-> arr[idx[j]]]

\* arr[mask] for a boolean mask
MaskSelect(arr, mask) == Take(arr, TrueIdx(mask))

\* the number of True entries of mask among its first p
Rank(mask, p) == Cardinality({ q \in 1..p : mask[q] })

---------------------------------------------------------------------------
(* The Mixture Model capability (gmm.py, kde.py) lies outside utils.py.    *)
(* A fitted model given to get_prob_mat is [id |-> k]; its probability()   *)
(* is elementwise and returns a representable value of [0, 1].             *)

ModelIds == 0..One

ProbOf(m, v) == Round((m.id + v) % (One + 1))

\* model.probability(arr)
Probability(m, arr) == [j \in 1..Len(arr) |-> ProbOf(m, arr[j])]

---------------------------------------------------------------------------
(* get_prob_mat, lines 28-36.                                              *)

\* np.zeros((n, m, 2))
Zeros(n, m) == [p \in 1..n |-> [b \in 1..m |-> [k \in 0..1 |-> 0]]]

\* a faulty variant: the results are written back in reverse order
MaskAssignReversed(pm, mask, c, vals) ==
    [p \in DOMAIN pm |->
        IF mask[p] THEN [pm[p] EXCEPT ![c][0] = vals[Len(vals) + 1 - Rank(mask, p)]]
        ELSE pm[p]]

\* pm[mask, c, 0] = vals
MaskAssign(pm, mask, c, vals) ==
    [p \in DOMAIN pm |->
        IF mask[p] THEN [pm[p] EXCEPT ![c][0] = vals[Rank(mask, p)]]
        ELSE pm[p]]

\* pm[mask, c, 0] = v
MaskFill(pm, mask, c, v) ==
    [p \in DOMAIN pm |-> IF mask[p] THEN [pm[p] EXCEPT ![c][0] = v] ELSE pm[p]]

\* a faulty variant: the complement is taken of slot 1 instead of slot 0
ComplementOfWrongSlot(pm) ==
    [p \in DOMAIN pm |->
        [b \in DOMAIN pm[p] |-> [pm[p][b] EXCEPT ![1] = FSub(One, pm[p][b][1])]]]

\* pm[:, :, 1] = 1 - pm[:, :, 0]
Complement(pm) ==
    [p \in DOMAIN pm |->
        [b \in DOMAIN pm[p] |-> [pm[p][b] EXCEPT ![1] = FSub(One, pm[p][b][0])]]]

\* lines 28-29
ProbEnter ==
    /\ fn = "get_prob_mat"
    /\ pc = "enter"
    /\ prob_mat' = Zeros(Len(X), NBio)
    /\ i' = 1
    /\ pc' = "loop"
    /\ UNCHANGED <<fn, exc, X, y, Xloc, yloc, patholog_dirn_array, alphasArg, betasArg,
                   alphas, betas, mixture_models, kde_mixtures, probCalls, fitCalls>>

\* lines 30-34, one pass of the loop
ProbIter ==
    /\ fn = "get_prob_mat"
    /\ pc = "loop"
    /\ i <= NBio
    /\ LET nan_mask == NotNanMask(Column(X, i))
           arg      == MaskSelect(Column(X, i), nan_mask)
           probs    == Probability(mixture_models[i], arg)
       IN  /\ prob_mat' = MaskFill(MaskAssign(prob_mat, nan_mask, i, probs),
                                   Negate(nan_mask), i, Half)
           /\ probCalls' = Append(probCalls,
                                  [model |-> mixture_models[i], arg |-> arg, out |-> probs])
    /\ i' = i + 1
    /\ UNCHANGED <<fn, pc, exc, X, y, Xloc, yloc, patholog_dirn_array, alphasArg, betasArg,
                   alphas, betas, mixture_models, kde_mixtures, fitCalls>>

\* lines 35-36
ProbReturn ==
    /\ fn = "get_prob_mat"
    /\ pc = "loop"
    /\ i > NBio
    /\ prob_mat' = Complement(prob_mat)
    /\ pc' = "returned"
    /\ UNCHANGED <<fn, exc, X, y, Xloc, yloc, patholog_dirn_array, alphasArg, betasArg,
                   alphas, betas, i, mixture_models, kde_mixtures, probCalls, fitCalls>>

---------------------------------------------------------------------------
(* Python values of the hyperparameter arguments.  A value is None, a      *)
(* number, or a list, tuple or array of numbers; numbers are in tenths.    *)

None == [kind |-> "none", val |-> <<>>]
Scalar(s) == [kind |-> "scalar", val |-> <<s>>]
SeqObj(kind, s) == [kind |-> kind, val |-> s]

DefaultAlpha == 3                   \* alpha=0.3 and alphas = 0.3
DefaultQuant == 9                   \* quant=0.9
implement_fixed_controls == FALSE   \* implement_fixed_controls=False

\* the items of a Python list of numbers, as a sequence of Python values
ListItems(o) == [j \in 1..Len(o.val) |-> Scalar(o.val[j])]

\* [o] * n
Repeat(o, n) == [j \in 1..n |-> o]

---------------------------------------------------------------------------
(* The code shared by the three fitting entry points.                      *)

\* a faulty variant: the label test is y <= 2
WhereLabelLe2(lab) == TrueIdx([p \in 1..Len(lab) |-> lab[p] <= 2])

\* np.where(y < 2)[0]
Where(lab) == TrueIdx([p \in 1..Len(lab) |-> lab[p] < 2])

\* bio_X of biomarker c: the non-missing values of column c of the local X
BioX(T, c) == MaskSelect(Column(T, c), NotNanMask(Column(T, c)))

\* bio_y of biomarker c: the labels of the rows whose column c is not missing
BioY(T, lab, c) == MaskSelect(lab, NotNanMask(Column(T, c)))

\* a faulty variant: a failed fit is swallowed and the unfit model is kept as a placeholder
FitThenAppendSwallowing(list, mm, ok) ==
    [pc |-> "loop", exc |-> "none", list |-> Append(list, [mm EXCEPT !.fitted = ok])]

\* mm.fit(...) followed by list.append(mm): an exception of fit leaves the function
FitThenAppend(list, mm, ok) ==
    IF ok
    THEN [pc |-> "loop", exc |-> "none", list |-> Append(list, [mm EXCEPT !.fitted = TRUE])]
    ELSE [pc |-> "raised", exc |-> "FitError", list |-> list]

\* the arguments the KDE entry points pass to fit after bio_X and bio_y
KdeArgs(dirn) == <<implement_fixed_controls, dirn, DefaultQuant>>

\* the record of one call of fit: the instance, its constructor arguments, the
\* arguments of fit and whether fit raised
FitCall(mm, bx, by, more, ok) ==
    [inst |-> mm.inst, variant |-> mm.variant, alpha |-> mm.alpha, beta |-> mm.beta,
     X |-> bx, y |-> by, more |-> more, raised |-> ~ok]

\* the number of model instances constructed so far; every pass constructs
\* one and calls fit on it
NewInst == Len(fitCalls) + 1

---------------------------------------------------------------------------
(* fit_all_gmm_models, lines 39-55.                                        *)

\* lines 41-46
GmmEnter ==
    /\ fn = "fit_all_gmm_models"
    /\ pc = "enter"
    /\ Xloc' = Take(X, Where(y))
    /\ yloc' = Take(y, Where(y))
    /\ mixture_models' = <<>>
    /\ i' = 1
    /\ pc' = "loop"
    /\ UNCHANGED <<fn, exc, X, y, patholog_dirn_array, alphasArg, betasArg, alphas, betas,
                   kde_mixtures, prob_mat, probCalls, fitCalls>>

\* lines 47-54, one pass of the loop
GmmIter ==
    /\ fn = "fit_all_gmm_models"
    /\ pc = "loop"
    /\ i <= NBio
    /\ \E ok \in BOOLEAN :
         LET bio_y == BioY(Xloc, yloc, i)
             bio_X == BioX(Xloc, i)
             mm    == [inst |-> NewInst, variant |-> "ParametricMM",
                       alpha |-> None, beta |-> None, fitted |-> FALSE]
             r     == FitThenAppend(mixture_models, mm, ok)
         IN  /\ fitCalls' = Append(fitCalls, FitCall(mm, bio_X, bio_y, <<>>, ok))
             /\ mixture_models' = r.list
             /\ pc' = r.pc
             /\ exc' = r.exc
    /\ i' = i + 1
    /\ UNCHANGED <<fn, X, y, Xloc, yloc, patholog_dirn_array, alphasArg, betasArg,
                   alphas, betas, kde_mixtures, prob_mat, probCalls>>

\* line 55
GmmReturn ==
    /\ fn = "fit_all_gmm_models"
    /\ pc = "loop"
    /\ i > NBio
    /\ pc' = "returned"
    /\ UNCHANGED <<fn, exc, X, y, Xloc, yloc, patholog_dirn_array, alphasArg, betasArg,
                   alphas, betas, i, mixture_models, kde_mixtures, prob_mat, probCalls,
                   fitCalls>>

---------------------------------------------------------------------------
(* fit_all_kde_models, lines 58-79.                                        *)

\* lines 60-65
KdeEnter ==
    /\ fn = "fit_all_kde_models"
    /\ pc = "enter"
    /\ Xloc' = Take(X, Where(y))
    /\ yloc' = Take(y, Where(y))
    /\ kde_mixtures' = <<>>
    /\ i' = 1
    /\ pc' = "loop"
    /\ UNCHANGED <<fn, exc, X, y, patholog_dirn_array, alphasArg, betasArg, alphas, betas,
                   mixture_models, prob_mat, probCalls, fitCalls>>

\* line 67 with patholog_dirn_array = None: None[i] raises TypeError
KdeIterNoDirn ==
    /\ fn = "fit_all_kde_models"
    /\ pc = "loop"
    /\ i <= NBio
    /\ patholog_dirn_array.kind = "none"
    /\ pc' = "raised"
    /\ exc' = "TypeError"
    /\ UNCHANGED <<fn, X, y, Xloc, yloc, patholog_dirn_array, alphasArg, betasArg, alphas,
                   betas, i, mixture_models, kde_mixtures, prob_mat, probCalls, fitCalls>>

\* lines 67-78, one pass of the loop
KdeIter ==
    /\ fn = "fit_all_kde_models"
    /\ pc = "loop"
    /\ i <= NBio
    /\ patholog_dirn_array.kind # "none"
    /\ \E ok \in BOOLEAN :
         LET patholog_dirn == patholog_dirn_array.val[i]
             bio_y == BioY(Xloc, yloc, i)
             bio_X == BioX(Xloc, i)
             kde   == [inst |-> NewInst, variant |-> "KDEMM",
                       alpha |-> alphasArg, beta |-> betasArg, fitted |-> FALSE]
             r     == FitThenAppend(kde_mixtures, kde, ok)
         IN  /\ fitCalls' = Append(fitCalls, FitCall(kde, bio_X, bio_y, KdeArgs(patholog_dirn), ok))
             /\ kde_mixtures' = r.list
             /\ pc' = r.pc
             /\ exc' = r.exc
    /\ i' = i + 1
    /\ UNCHANGED <<fn, X, y, Xloc, yloc, patholog_dirn_array, alphasArg, betasArg,
                   alphas, betas, mixture_models, prob_mat, probCalls>>

\* line 79
KdeReturn ==
    /\ fn = "fit_all_kde_models"
    /\ pc = "loop"
    /\ i > NBio
    /\ pc' = "returned"
    /\ UNCHANGED <<fn, exc, X, y, Xloc, yloc, patholog_dirn_array, alphasArg, betasArg,
                   alphas, betas, i, mixture_models, kde_mixtures, prob_mat, probCalls,
                   fitCalls>>

---------------------------------------------------------------------------
(* fit_all_kde_models_plus, lines 81-113.                                  *)

\* a faulty variant: a missing alphas is not replaced by the default
ResolveAlphasNoDefault(a, n) ==
    IF a.kind # "list" THEN Repeat(a, n) ELSE ListItems(a)

\* lines 90-94
ResolveAlphas(a, n) ==
    LET a1 == IF a.kind = "none" THEN Scalar(DefaultAlpha) ELSE a
    IN  IF a1.kind # "list" THEN Repeat(a1, n) ELSE ListItems(a1)

\* lines 97-101, al the local alphas
ResolveBetas(b, al, n) ==
    IF b.kind = "none" THEN al
    ELSE IF b.kind # "list" THEN Repeat(b, n)
    ELSE ListItems(b)

\* lines 83-103
PlusEnter ==
    /\ fn = "fit_all_kde_models_plus"
    /\ pc = "enter"
    /\ Xloc' = Take(X, Where(y))
    /\ yloc' = Take(y, Where(y))
    /\ alphas' = ResolveAlphas(alphasArg, NBio)
    /\ betas' = ResolveBetas(betasArg, alphas', NBio)
    /\ kde_mixtures' = <<>>
    /\ i' = 1
    /\ pc' = "loop"
    /\ UNCHANGED <<fn, exc, X, y, patholog_dirn_array, alphasArg, betasArg,
                   mixture_models, prob_mat, probCalls, fitCalls>>

\* line 105 with patholog_dirn_array = None: None[i] raises TypeError
PlusIterNoDirn ==
    /\ fn = "fit_all_kde_models_plus"
    /\ pc = "loop"
    /\ i <= NBio
    /\ patholog_dirn_array.kind = "none"
    /\ pc' = "raised"
    /\ exc' = "TypeError"
    /\ UNCHANGED <<fn, X, y, Xloc, yloc, patholog_dirn_array, alphasArg, betasArg, alphas,
                   betas, i, mixture_models, kde_mixtures, prob_mat, probCalls, fitCalls>>

\* line 110 with a list shorter than i: alphas[i] or betas[i] raises IndexError
PlusIterIndexError ==
    /\ fn = "fit_all_kde_models_plus"
    /\ pc = "loop"
    /\ i <= NBio
    /\ patholog_dirn_array.kind # "none"
    /\ (i > Len(alphas) \/ i > Len(betas))
    /\ pc' = "raised"
    /\ exc' = "IndexError"
    /\ UNCHANGED <<fn, X, y, Xloc, yloc, patholog_dirn_array, alphasArg, betasArg, alphas,
                   betas, i, mixture_models, kde_mixtures, prob_mat, probCalls, fitCalls>>

\* lines 105-112, one pass of the loop
PlusIter ==
    /\ fn = "fit_all_kde_models_plus"
    /\ pc = "loop"
    /\ i <= NBio
    /\ patholog_dirn_array.kind # "none"
    /\ i <= Len(alphas)
    /\ i <= Len(betas)
    /\ \E ok \in BOOLEAN :
         LET patholog_dirn == patholog_dirn_array.val[i]
             bio_y == BioY(Xloc, yloc, i)
             bio_X == BioX(Xloc, i)
             kde   == [inst |-> NewInst, variant |-> "KDEMM",
                       alpha |-> alphas[i], beta |-> betas[i], fitted |-> FALSE]
             r     == FitThenAppend(kde_mixtures, kde, ok)
         IN  /\ fitCalls' = Append(fitCalls, FitCall(kde, bio_X, bio_y, KdeArgs(patholog_dirn), ok))
             /\ kde_mixtures' = r.list
             /\ pc' = r.pc
             /\ exc' = r.exc
    /\ i' = i + 1
    /\ UNCHANGED <<fn, X, y, Xloc, yloc, patholog_dirn_array, alphasArg, betasArg,
                   alphas, betas, mixture_models, prob_mat, probCalls>>

\* line 113
PlusReturn ==
    /\ fn = "fit_all_kde_models_plus"
    /\ pc = "loop"
    /\ i > NBio
    /\ pc' = "returned"
    /\ UNCHANGED <<fn, exc, X, y, Xloc, yloc, patholog_dirn_array, alphasArg, betasArg,
                   alphas, betas, i, mixture_models, kde_mixtures, prob_mat, probCalls,
                   fitCalls>>

---------------------------------------------------------------------------
(* The arguments of a call.                                                *)

\* the value of a present cell: every cell of a table has its own value
CellVal(p, b) == (p - 1) * NBio + b

\* the tables of NPat patients and NBio biomarkers, any mix of present and missing
Tables ==
    { [p \in 1..NPat |-> [b \in 1..NBio |-> IF m[p][b] THEN CellVal(p, b) ELSE NaN]] :
        m \in [1..NPat -> [1..NBio -> BOOLEAN]] }

FullTable == [p \in 1..NPat |-> [b \in 1..NBio |-> CellVal(p, b)]]

\* 0 control, 1 diseased, 2 and above the excluded classes
Labels == 0..MaxLabel

LabelVectors == [1..NPat -> Labels]

\* the lists of fitted models given to get_prob_mat: a different model per column
ModelLists == { [b \in 1..NBio |-> [id |-> (k + b) % (One + 1)]] : k \in ModelIds }

DirnGiven == SeqObj("array", [b \in 1..NBio |-> IF b % 2 = 1 THEN 1 ELSE -1])

SeqVals(n) == [j \in 1..n |-> j]

\* None, a number, or a list, tuple or array one shorter than, as long as or one
\* longer than the number of biomarkers
HyperArgs ==
    {None} \cup {Scalar(5), Scalar(7)}
    \cup { SeqObj(k, SeqVals(n)) : k \in {"list", "tuple", "array"}, n \in (NBio - 1)..(NBio + 1) }

FitFns == {"fit_all_gmm_models", "fit_all_kde_models", "fit_all_kde_models_plus"}

InitLocals ==
    /\ pc = "enter"
    /\ exc = "none"
    /\ Xloc = <<>>
    /\ yloc = <<>>
    /\ alphas = <<>>
    /\ betas = <<>>
    /\ i = 0
    /\ kde_mixtures = <<>>
    /\ prob_mat = <<>>
    /\ probCalls = <<>>
    /\ fitCalls = <<>>

\* a call of get_prob_mat
InitProb ==
    /\ fn = "get_prob_mat"
    /\ X \in Tables
    /\ y = <<>>
    /\ mixture_models \in ModelLists
    /\ patholog_dirn_array = None
    /\ alphasArg = None
    /\ betasArg = None

\* a call of a fitting entry point with any table and labels and the default
\* hyperparameters
InitData ==
    /\ fn \in FitFns
    /\ X \in Tables
    /\ y \in LabelVectors
    /\ mixture_models = <<>>
    /\ patholog_dirn_array \in (IF fn = "fit_all_gmm_models" THEN {None} ELSE {None, DirnGiven})
    /\ alphasArg = (IF fn = "fit_all_kde_models" THEN Scalar(DefaultAlpha) ELSE None)
    /\ betasArg = None

\* a call of fit_all_kde_models_plus with any hyperparameters on a table without
\* missing cells
InitParams ==
    /\ fn = "fit_all_kde_models_plus"
    /\ X = FullTable
    /\ y \in LabelVectors
    /\ mixture_models = <<>>
    /\ patholog_dirn_array \in {None, DirnGiven}
    /\ alphasArg \in HyperArgs
    /\ betasArg \in HyperArgs

Init == InitLocals /\ (InitProb \/ InitData \/ InitParams)

Next ==
    \/ ProbEnter \/ ProbIter \/ ProbReturn
    \/ GmmEnter \/ GmmIter \/ GmmReturn
    \/ KdeEnter \/ KdeIterNoDirn \/ KdeIter \/ KdeReturn
    \/ PlusEnter \/ PlusIterNoDirn \/ PlusIterIndexError \/ PlusIter \/ PlusReturn

Spec == Init /\ [][Next]_vars

---------------------------------------------------------------------------
(* Properties of get_prob_mat.                                             *)

Patients == 1..NPat
Biomarkers == 1..NBio

ProbCall == fn = "get_prob_mat"
ProbReturned == ProbCall /\ pc = "returned"

\* C1: in the tensor get_prob_mat returns, slot 0 plus slot 1 is exactly 1 for
\* every patient and biomarker, present or missing; slot 1 is written only after
\* the loop over the biomarkers has ended (it is still the initial 0 during it).
C1_SlotsSumToOne ==
    /\ ProbReturned =>
         \A p \in Patients, b \in Biomarkers :
            FAdd(prob_mat[p][b][0], prob_mat[p][b][1]) = One
    /\ (ProbCall /\ pc = "loop") =>
         \A p \in Patients, b \in Biomarkers : prob_mat[p][b][1] = 0

\* C1 witness: a returned tensor of a table with a missing cell and a present
\* cell whose complement 1 - x is not representable and had to be rounded.
C1_Witness ==
    /\ ProbReturned
    /\ \E p \in Patients, b \in Biomarkers : IsNan(X[p][b])
    /\ \E p \in Patients, b \in Biomarkers :
          /\ ~IsNan(X[p][b])
          /\ (One - prob_mat[p][b][0]) \notin Representable

\* C2: a missing cell gets exactly 0.5 in both slots, whatever the model of its
\* biomarker returns for other values, and no missing value is ever passed to
\* probability().
C2_MissingIsHalf ==
    /\ ProbReturned =>
         \A p \in Patients, b \in Biomarkers :
            IsNan(X[p][b]) => (prob_mat[p][b][0] = Half /\ prob_mat[p][b][1] = Half)
    /\ ProbCall =>
         \A k \in 1..Len(probCalls) :
            \A j \in 1..Len(probCalls[k].arg) : ~IsNan(probCalls[k].arg[j])

\* C2 witness: a returned tensor where a biomarker is missing for one patient
\* and present, with a probability other than 0.5, for another.
C2_Witness ==
    /\ ProbReturned
    /\ \E b \in Biomarkers, p, q \in Patients :
          /\ IsNan(X[p][b])
          /\ ~IsNan(X[q][b])
          /\ prob_mat[q][b][0] # Half
          /\ prob_mat[p][b][0] = Half

\* C3: a present cell X[p,b] gets in slot 0 what mixture_models[b].probability
\* returns for X[p,b]: call b is made on model b with the present values of
\* column b in row order, and its j-th result goes to the patient that supplied
\* the j-th input.
C3_PresentIsOwnProbability ==
    ProbReturned =>
      /\ Len(probCalls) = NBio
      /\ \A b \in Biomarkers :
            /\ probCalls[b].model = mixture_models[b]
            /\ Len(probCalls[b].arg) = Cardinality({ p \in Patients : ~IsNan(X[p][b]) })
            /\ \A j, k \in 1..Len(probCalls[b].arg) :
                  j < k => probCalls[b].arg[j] < probCalls[b].arg[k]
            /\ \A p \in Patients :
                  ~IsNan(X[p][b]) =>
                     /\ prob_mat[p][b][0] = ProbOf(mixture_models[b], X[p][b])
                     /\ \E j \in 1..Len(probCalls[b].arg) :
                           /\ probCalls[b].arg[j] = X[p][b]
                           /\ probCalls[b].out[j] = prob_mat[p][b][0]

\* C3 witness: a returned tensor where one column has a missing patient before a
\* present one and another column has two present patients with different
\* probabilities.
C3_Witness ==
    /\ ProbReturned
    /\ \E b \in Biomarkers, p, q \in Patients :
          p < q /\ IsNan(X[p][b]) /\ ~IsNan(X[q][b])
    /\ \E b \in Biomarkers, p, q \in Patients :
          /\ p < q /\ ~IsNan(X[p][b]) /\ ~IsNan(X[q][b])
          /\ prob_mat[p][b][0] # prob_mat[q][b][0]

---------------------------------------------------------------------------
(* Properties of the fitting entry points.                                 *)

FitCallOfFn == fn \in FitFns
PlusCall == fn = "fit_all_kde_models_plus"

\* the list the entry point builds and returns
Built == IF fn = "fit_all_gmm_models" THEN mixture_models ELSE kde_mixtures

\* the rows that train biomarker c: label 0 or 1 and column c present, ascending
TrainRows(c) ==
    SelectSeq([p \in 1..NPat |-> p], LAMBDA p : y[p] \in {0, 1} /\ ~IsNan(X[p][c]))

TrainX(c) == [j \in 1..Len(TrainRows(c)) |-> X[TrainRows(c)[j]][c]]
TrainY(c) == [j \in 1..Len(TrainRows(c)) |-> y[TrainRows(c)[j]]]

\* C4: the list a fitting entry point returns has one model per biomarker in
\* column order; the i-th is an instance of its own, of the entry point's model
\* family, fit exactly once, on the values of column i of the rows with label 0
\* or 1 that are not missing, in row order, with the labels of those rows.  No
\* call of fit, also in a call that later raises, sees a row with label >= 2.
C4_OneModelPerBiomarker ==
    FitCallOfFn =>
      /\ \A k \in 1..Len(fitCalls) :
            /\ fitCalls[k].X = TrainX(k)
            /\ fitCalls[k].y = TrainY(k)
            /\ \A j \in 1..Len(fitCalls[k].y) : fitCalls[k].y[j] < 2
      /\ pc = "returned" =>
            /\ Len(Built) = NBio
            /\ Len(fitCalls) = NBio
            /\ \A c \in Biomarkers :
                  /\ Built[c].fitted
                  /\ Built[c].variant =
                        (IF fn = "fit_all_gmm_models" THEN "ParametricMM" ELSE "KDEMM")
                  /\ Cardinality({ k \in 1..Len(fitCalls) : fitCalls[k].inst = Built[c].inst })
                        = 1
                  /\ fitCalls[c].inst = Built[c].inst
                  /\ \A d \in Biomarkers : c # d => Built[c].inst # Built[d].inst

\* C4 witness: a returned list for a table where a present cell of an excluded
\* row (label >= 2) was kept out of the fit of a column that another row trained.
C4_Witness ==
    /\ FitCallOfFn
    /\ pc = "returned"
    /\ \E c \in Biomarkers, p, q \in Patients :
          /\ y[p] >= 2 /\ ~IsNan(X[p][c])
          /\ y[q] < 2 /\ ~IsNan(X[q][c])
          /\ fitCalls[c].X = <<X[q][c]>>
    /\ \E c \in Biomarkers, p \in Patients : y[p] < 2 /\ IsNan(X[p][c])

\* C5: in fit_all_kde_models_plus a scalar alphas = s gives every model
\* alpha = s, alphas = None gives every model alpha = 0.3, betas = None gives
\* model i the resolved alpha of biomarker i as beta, and a scalar betas = t
\* gives every model beta = t.
C5_Broadcast ==
    (PlusCall /\ pc # "enter") =>
      /\ alphasArg.kind = "scalar" =>
            /\ alphas = [j \in 1..NBio |-> [kind |-> "scalar", val |-> alphasArg.val]]
            /\ \A k \in 1..Len(fitCalls) : fitCalls[k].alpha = alphasArg
      /\ alphasArg.kind = "none" =>
            /\ alphas = [j \in 1..NBio |-> [kind |-> "scalar", val |-> <<DefaultAlpha>>]]
            /\ \A k \in 1..Len(fitCalls) :
                  fitCalls[k].alpha = [kind |-> "scalar", val |-> <<DefaultAlpha>>]
      /\ betasArg.kind = "none" =>
            /\ betas = alphas
            /\ \A k \in 1..Len(fitCalls) : fitCalls[k].beta = alphas[k]
      /\ betasArg.kind = "scalar" =>
            /\ betas = [j \in 1..NBio |-> [kind |-> "scalar", val |-> betasArg.val]]
            /\ \A k \in 1..Len(fitCalls) : fitCalls[k].beta = betasArg

\* C5 witness: fit_all_kde_models_plus returned after alphas = 0.5, betas = None:
\* every model was constructed with alpha = 0.5 and beta = 0.5.
C5_Witness ==
    /\ PlusCall
    /\ pc = "returned"
    /\ alphasArg = Scalar(5)
    /\ betasArg = None
    /\ Len(fitCalls) = NBio
    /\ \A k \in 1..NBio : fitCalls[k].alpha = Scalar(5) /\ fitCalls[k].beta = Scalar(5)

SeqKinds == {"list", "tuple", "array"}

\* a per-biomarker sequence whose length is not the number of biomarkers
LengthMismatch(o) == o.kind \in SeqKinds /\ Len(o.val) # NBio

\* C6 (as claimed): when alphas or betas is a sequence whose length differs from
\* the number of biomarkers, fit_all_kde_models_plus fails before any model is
\* fit and never returns a model list.
C6_LengthMismatchFailsFirst ==
    (PlusCall /\ (LengthMismatch(alphasArg) \/ LengthMismatch(betasArg))) =>
      (fitCalls = <<>> /\ pc # "returned")

\* C7: when the fit of biomarker k raises, the entry point raises: that call of
\* fit is the last one, no list is returned, and the list holds only the k - 1
\* fitted models, no placeholder.
C7_FitFailurePropagates ==
    FitCallOfFn =>
      \A k \in 1..Len(fitCalls) :
         fitCalls[k].raised =>
            /\ k = Len(fitCalls)
            /\ pc = "raised"
            /\ exc = "FitError"
            /\ Len(Built) = k - 1
            /\ \A j \in 1..Len(Built) : Built[j].fitted

\* C7 witness: a fit raised while biomarkers were left to fit, and the call
\* ended with that failure.
C7_Witness ==
    /\ FitCallOfFn
    /\ pc = "raised"
    /\ exc = "FitError"
    /\ Len(fitCalls) >= 1
    /\ fitCalls[Len(fitCalls)].raised
    /\ Len(fitCalls) < NBio

\* C8 (as claimed): an explicit sequence of one value per biomarker, of any
\* sequence type, is used as it is: model i gets alpha = alphas[i] and
\* beta = betas[i], a single value.
C8_SequenceUsedAsIs ==
    PlusCall =>
      /\ (alphasArg.kind \in SeqKinds /\ Len(alphasArg.val) = NBio) =>
            \A k \in 1..Len(fitCalls) :
               fitCalls[k].alpha = [kind |-> "scalar", val |-> <<alphasArg.val[k]>>]
      /\ (betasArg.kind \in SeqKinds /\ Len(betasArg.val) = NBio) =>
            \A k \in 1..Len(fitCalls) :
               fitCalls[k].beta = [kind |-> "scalar", val |-> <<betasArg.val[k]>>]

\* C9 (as claimed): no fitting entry point ever calls fit with an empty
\* measurement array.
C9_NoEmptyFit ==
    FitCallOfFn => \A k \in 1..Len(fitCalls) : fitCalls[k].X # <<>>

\* C10 (as claimed): a KDE entry point called without patholog_dirn_array does
\* not fail in the orchestrator: the only failure it can end with is the one of
\* a fit, and it calls fit for every biomarker the loop reaches.
C10_DirnOptional ==
    (fn \in {"fit_all_kde_models", "fit_all_kde_models_plus"}
        /\ patholog_dirn_array.kind = "none") =>
      /\ exc \in {"none", "FitError"}
      /\ pc = "returned" => Len(fitCalls) = NBio

=============================================================================
